---- MODULE Spec2Model ----
(***************************************************************************)
(* Model of app/services/settings/optimizer.ts: the Optimizer reads and    *)
(* writes a tree of interdependent settings of the host settings store     *)
(* through an ISettingsAccessor, with a per-instance category cache and a  *)
(* set of modified categories.                                             *)
(*                                                                         *)
(* A JavaScript value is modelled by a string token; UNDEF stands for      *)
(* undefined.  A field of the store (category, subCategory, setting) is    *)
(* named by the key of the one definition that addresses it.               *)
(***************************************************************************)
EXTENDS Naturals, Sequences, FiniteSets, TLC

\* ------------------------------------------------------------ definitions

\* enum OptimizationKey
OptimizationKey ==
    { "outputMode", "videoBitrate", "audioBitrate", "quality", "colorSpace", "fps",
      "encoder", "keyframeInterval", "encoderPreset", "profile", "tune",
      "audioTrackIndex" }

\* enum CategoryName
CategoryName == { "Output", "Video", "Advanced" }

\* A DefinitionParam without dependents.
Param(k, c, sub, s) ==
    [ key |-> k, category |-> c, subCategory |-> sub, setting |-> s,
      dependents |-> << >> ]

\* A DefinitionParam with dependents: a sequence of [value, params].
ParamDep(k, c, sub, s, deps) ==
    [ key |-> k, category |-> c, subCategory |-> sub, setting |-> s,
      dependents |-> deps ]

\* const definitionParams
definitionParams ==
    << ParamDep("outputMode", "Output", "Untitled", "Mode",
         << [ value |-> "Advanced",
              params |->
                << Param("videoBitrate", "Output", "Streaming", "bitrate"),
                   Param("audioBitrate", "Output", "Audio - Track 1", "Track1Bitrate"),
                   ParamDep("encoder", "Output", "Streaming", "Encoder",
                     << [ value |-> "obs_x264",
                          params |->
                            << Param("encoderPreset", "Output", "Streaming", "preset"),
                               Param("tune", "Output", "Streaming", "tune") >> ] >>),
                   Param("keyframeInterval", "Output", "Streaming", "keyint_sec"),
                   Param("profile", "Output", "Streaming", "profile"),
                   Param("audioTrackIndex", "Output", "Streaming", "TrackIndex") >> ] >>),
       Param("quality", "Video", "Untitled", "Output"),
       Param("colorSpace", "Advanced", "Video", "ColorSpace"),
       Param("fps", "Video", "Untitled", "FPSCommon") >>

RECURSIVE iterateDefinitions(_)
RECURSIVE iterateDependents(_)

\* The params of every dependent of a sequence of dependents, flattened in order.
iterateDependents(deps) ==
    IF deps = << >> THEN << >>
    ELSE iterateDefinitions(Head(deps).params) \o iterateDependents(Tail(deps))

\* iterateDefinitions that yields an item once more after the items of its
\* dependents.
iterateDefinitions_repeats(params) ==
    IF params = << >> THEN << >>
    ELSE << Head(params) >> \o iterateDependents(Head(params).dependents)
         \o ( IF Head(params).dependents # << >> THEN << Head(params) >> ELSE << >> )
         \o iterateDefinitions(Tail(params))

\* function* iterateDefinitions: each item, then the items of all its dependents.
iterateDefinitions(params) ==
    IF params = << >> THEN << >>
    ELSE << Head(params) >> \o iterateDependents(Head(params).dependents)
         \o iterateDefinitions(Tail(params))

\* Every definition of the tree, in iteration order.
AllDefinitions == iterateDefinitions(definitionParams)

\* The definition that declares each key.
DefTable ==
    [ k \in OptimizationKey |->
        LET i == CHOOSE j \in 1..Len(AllDefinitions) : AllDefinitions[j].key = k
        IN  AllDefinitions[i] ]

\* The definition that declares key k.
Def(k) == DefTable[k]

\* The keys of a sequence of definitions, in order.
KeysOf(params) == [ i \in 1..Len(params) |-> params[i].key ]

\* The set of elements of a sequence.
Range(s) == { s[i] : i \in 1..Len(s) }

\* All params of all dependents of an item (the double loop `for dependent of
\* item.dependents, for subItem of dependent.params`), in order.
SubItems(item) ==
    LET RECURSIVE cat(_)
        cat(deps) == IF deps = << >> THEN << >>
                     ELSE Head(deps).params \o cat(Tail(deps))
    IN  cat(item.dependents)

RECURSIVE isDependValues(_, _)
RECURSIVE isDependDependents(_, _)

\* The inner loop of isDependValues over item.dependents.
isDependDependents(values, deps) ==
    IF deps = << >> THEN FALSE
    ELSE isDependValues(values, Head(deps).params)
         \/ isDependDependents(values, Tail(deps))

\* isDependValues without lines 244-250: the dependents are not looked into.
isDependValues_shallow(values, items) ==
    \E i \in DOMAIN items : items[i].key \in DOMAIN values

\* function isDependValues: values names a key of items or of their dependents.
isDependValues(values, items) ==
    IF items = << >> THEN FALSE
    ELSE \/ Head(items).key \in DOMAIN values
         \/ isDependDependents(values, Head(items).dependents)
         \/ isDependValues(values, Tail(items))

\* ------------------------------------------------------------ host store

\* undefined
UNDEF == "undefined"

\* For each key, the branching item and the selector value under which it is
\* declared, or << >> for an item of the root list.
ParentTable ==
    [ k \in OptimizationKey |->
        LET owners == { <<d, j>> \in Range(AllDefinitions) \X DOMAIN AllDefinitions :
                          /\ j <= Len(d.dependents)
                          /\ k \in Range(KeysOf(d.dependents[j].params)) }
        IN  IF owners = {} THEN << >>
            ELSE LET o == CHOOSE o \in owners : TRUE
                 IN  << o[1].key, o[1].dependents[o[2]].value >> ]

\* The parent of key k and the selector value of k's branch.
ParentOf(k) == ParentTable[k]

RECURSIVE Materialized(_, _, _)
\* The store shows field k: its schema has the field and every branching field
\* above it holds the selector value of the branch k lives in.
Materialized(st, sch, k) ==
    /\ k \in sch
    /\ \/ ParentOf(k) = << >>
       \/ /\ Materialized(st, sch, ParentOf(k)[1])
          /\ st[ParentOf(k)[1]] = ParentOf(k)[2]

\* accessor.getSettingsFormData: the fields of the category the store shows now.
getSettingsFormData(st, sch, category) ==
    LET shown == { k \in OptimizationKey :
                     Def(k).category = category /\ Materialized(st, sch, k) }
    IN  [ k \in shown |-> st[k] ]

\* accessor.findSetting: the field is in the form data.
findSetting(settings, item) == item.key \in DOMAIN settings

\* accessor.findSettingValue: the field's value, undefined when it is not there.
findSettingValue(settings, item) ==
    IF item.key \in DOMAIN settings THEN settings[item.key] ELSE UNDEF

\* The store applies field k of written form data: it shows the field, and the
\* form data changes no branching field above k (a change above swaps the
\* children, whose values in the same form data are not taken).
Applied(st, sch, settings, k) ==
    LET RECURSIVE above(_)
        above(j) ==
            \/ ParentOf(j) = << >>
            \/ /\ ParentOf(j)[1] \in DOMAIN settings
                    => settings[ParentOf(j)[1]] = st[ParentOf(j)[1]]
               /\ above(ParentOf(j)[1])
    IN  k \in DOMAIN settings /\ Materialized(st, sch, k) /\ above(k)

\* accessor.setSettings: the store after the form data of a category is written.
setSettings(st, sch, settings) ==
    [ k \in OptimizationKey |->
        IF Applied(st, sch, settings, k) THEN settings[k] ELSE st[k] ]

\* ------------------------------------------------------------ state

VARIABLES
    store,               \* host store: the durable value of every field
    schema,              \* host store: the fields its schema has
    categoryCache,       \* Optimizer.categoryCache: category -> form data
    modifiedCategories,  \* Optimizer.modifiedCategories, in insertion order
    pc,                  \* "idle", or the public method that is running
    stack,               \* the steps the running method has still to take
    values,              \* the argument of the running or the last optimize
    result,              \* the snapshot getCurrentSettings has assembled
    target,              \* the target snapshot the caller holds
    calls,               \* public calls started
    prev,                \* the public method that returned last, or "none"
    before,              \* the public method that returned before that one began
    arg,                 \* what the running or last optimize was passed:
                         \* "target", "current" (the snapshot just read) or "none"
    store0,              \* the store when the running or last call started
    unsent,              \* fields edited in the cache that the store has not taken
    edited,              \* fields edited in the cache since setSettings last sent
                         \* their category
    stale,               \* cached categories loaded before a branch switch was sent
    carried,             \* cached categories loaded by an earlier public call
    reused,              \* this call was served a carried cache entry
    sent,                \* this call has called accessor.setSettings
    dirtied,             \* this call has added to modifiedCategories
    warned,              \* the keys this call logged as "key not found"
    applied,             \* the function of the module applied by itself, or "none"
    current,             \* optimizeInfo: the current snapshot it was passed
    dictionary,          \* the paths the translation dictionary of $t has
    info,                \* optimizeInfo: what it returned
    missing,             \* validateDefinitionParams: the keys it found missing
    nodes,               \* isDependValues: the items it was passed
    depends              \* isDependValues: what it returned

\* The state of the store, of the Optimizer and of its caller.
optimizerVars ==
    << store, schema, categoryCache, modifiedCategories, pc, stack, values, result,
       calls, prev, before, arg, store0, unsent, edited, stale, carried, reused, sent,
       dirtied, warned >>

\* The arguments and results of the functions applied by themselves.
functionVars == << applied, current, dictionary, info, missing, nodes, depends >>

vars == << optimizerVars, target, functionVars >>

\* The part of the state the private methods of Optimizer read and write.
Cur ==
    [ store |-> store, schema |-> schema, categoryCache |-> categoryCache,
      modifiedCategories |-> modifiedCategories, unsent |-> unsent,
      edited |-> edited, stale |-> stale,
      carried |-> carried, reused |-> reused, sent |-> sent, dirtied |-> dirtied,
      warned |-> warned ]

\* The state o becomes the current one.
Commit(o) ==
    /\ store' = o.store
    /\ schema' = o.schema
    /\ categoryCache' = o.categoryCache
    /\ modifiedCategories' = o.modifiedCategories
    /\ unsent' = o.unsent
    /\ edited' = o.edited
    /\ stale' = o.stale
    /\ carried' = o.carried
    /\ reused' = o.reused
    /\ sent' = o.sent
    /\ dirtied' = o.dirtied
    /\ warned' = o.warned

\* The one element of a singleton set.  { e(x) : x \in {v} } evaluates v once,
\* however often e uses x.
Only(S) == CHOOSE x \in S : TRUE

\* A map with one entry set (Map.set, or the assignment of an object's field).
Put(map, k, v) == [ j \in DOMAIN map \cup {k} |-> IF j = k THEN v ELSE map[j] ]

\* A map with one entry removed (Map.delete).
Drop(map, k) == [ j \in DOMAIN map \ {k} |-> map[j] ]

\* A Set in insertion order with one element removed (Set.delete).
Without(seq, x) == SelectSeq(seq, LAMBDA y : y # x)

\* A Set in insertion order with one element added (Set.add).
With(seq, x) == IF x \in Range(seq) THEN seq ELSE Append(seq, x)

\* The categories that hold a field declared anywhere under a branching item.
BranchCategories(item) ==
    { d.category : d \in Range(iterateDependents(item.dependents)) }

\* ------------------------------------------------------------ Optimizer

\* Optimizer.getCategory: the state after the call; the form data it returns is
\* categoryCache[category] of that state.
getCategory(o, category, reload) ==
    IF reload \/ category \notin DOMAIN o.categoryCache
    THEN [ o EXCEPT
             !.categoryCache =
                 Put(@, category, getSettingsFormData(o.store, o.schema, category)),
             !.stale = @ \ {category},
             !.carried = @ \ {category} ]
    ELSE [ o EXCEPT !.reused = @ \/ category \in o.carried ]

\* Optimizer.updateCategory
updateCategory(o, category) ==
    IF category \in DOMAIN o.categoryCache
    THEN Only({ LET settings == o1.categoryCache[category]
                    taken == { k \in DOMAIN settings :
                                 Applied(o1.store, o1.schema, settings, k) }
                    switched == { k \in taken : /\ Def(k).dependents # << >>
                                                /\ settings[k] # o1.store[k] }
                IN  [ o1 EXCEPT
                        !.store = setSettings(o1.store, o1.schema, settings),
                        !.unsent = @ \ taken,
                        !.edited = { k \in @ : Def(k).category # category },
                        !.stale = @ \cup { c \in DOMAIN o1.categoryCache :
                                             \E k \in switched :
                                                 c \in BranchCategories(Def(k)) },
                        !.sent = TRUE ] :
                o1 \in { getCategory(o, category, FALSE) } })
    ELSE o

\* writeBackCategory without line 306: the category stays in modifiedCategories.
writeBackCategory_noDelete(o, category) ==
    IF category \in Range(o.modifiedCategories)
    THEN updateCategory(o, category)
    ELSE o

\* Optimizer.writeBackCategory
writeBackCategory(o, category) ==
    IF category \in Range(o.modifiedCategories)
    THEN [ updateCategory(o, category) EXCEPT
             !.modifiedCategories = Without(@, category) ]
    ELSE o

RECURSIVE updateEach(_, _)
\* The loop of writeBackAllCategories over the modified categories.
updateEach(o, categories) ==
    IF categories = << >> THEN o
    ELSE Only({ updateEach(o1, Tail(categories)) :
                  o1 \in { updateCategory(o, Head(categories)) } })

\* Optimizer.writeBackAllCategories
writeBackAllCategories(o) ==
    [ updateEach(o, o.modifiedCategories) EXCEPT !.modifiedCategories = << >> ]

\* forgetCategoryCache without line 319: the category leaves modifiedCategories
\* and its cache entry stays.
forgetCategoryCache_noDelete(o, category) ==
    IF category \in DOMAIN o.categoryCache
    THEN [ o EXCEPT !.modifiedCategories = Without(@, category) ]
    ELSE o

\* Optimizer.forgetCategoryCache
forgetCategoryCache(o, category) ==
    IF category \in DOMAIN o.categoryCache
    THEN [ o EXCEPT
             !.categoryCache = Drop(@, category),
             !.modifiedCategories = Without(@, category),
             !.stale = @ \ {category},
             !.carried = @ \ {category} ]
    ELSE o

\* Optimizer.findValue: the value it returns, in the state after its getCategory.
findValue(o, item) ==
    findSettingValue(getCategory(o, item.category, FALSE).categoryCache[item.category],
                     item)

RECURSIVE writeBackEach(_, _)
\* setValue, lines 342-346: writeBackCategory for every subItem of every dependent.
writeBackEach(o, subItems) ==
    IF subItems = << >> THEN o
    ELSE Only({ writeBackEach(o1, Tail(subItems)) :
                  o1 \in { writeBackCategory(o, Head(subItems).category) } })

RECURSIVE forgetEach(_, _)
\* setValue, lines 358-362: forgetCategoryCache for every subItem of every dependent.
forgetEach(o, subItems) ==
    IF subItems = << >> THEN o
    ELSE Only({ forgetEach(o1, Tail(subItems)) :
                  o1 \in { forgetCategoryCache(o, Head(subItems).category) } })

\* The steps of a running method.
Step(op, k, v) == [ op |-> op, key |-> k, value |-> v ]

\* setValue with lines 357 and 358-362 exchanged: the caches of the dependents are
\* forgotten before the item's own category is written back.
setValueSteps_forgetFirst(item, value) ==
    << Step("assign", item.key, value) >>
    \o ( IF item.dependents # << >>
         THEN << Step("forget", item.key, value), Step("writeBack", item.key, value) >>
         ELSE << >> )

\* setValue without lines 358-362: the caches of the dependents are kept.
setValueSteps_noForget(item, value) ==
    << Step("assign", item.key, value) >>
    \o ( IF item.dependents # << >>
         THEN << Step("writeBack", item.key, value) >>
         ELSE << >> )

\* setValue without lines 352-363: the change of an item with dependents is
\* left in the cache like any other, neither sent at once nor followed by the
\* forgetting.
setValueSteps_assignOnly(item, value) == << Step("assign", item.key, value) >>

\* setValue with lines 358-362 moved above line 349: the caches of the dependents
\* are forgotten before the assignment, which then edits form data that the
\* cache may hold no longer.
setValueSteps_forgetBeforeAssign(item, value) ==
    ( IF item.dependents # << >> THEN << Step("forget", item.key, value) >> ELSE << >> )
    \o << Step("assign", item.key, value) >>
    \o ( IF item.dependents # << >>
         THEN << Step("writeBack", item.key, value) >>
         ELSE << >> )

\* setValue, lines 348-363, as the steps that follow the write-back of the
\* dependents: the assignment, and for an item with dependents the immediate
\* write-back of its own category and the forgetting of its dependents' caches.
setValueSteps(item, value) ==
    << Step("assign", item.key, value) >>
    \o ( IF item.dependents # << >>
         THEN << Step("writeBack", item.key, value), Step("forget", item.key, value) >>
         ELSE << >> )

\* setValue without the comparison of line 338: a found setting is always assigned.
setValue_noCompare(o, item, value) ==
    Only({ LET settings == o1.categoryCache[item.category]
           IN  IF ~ findSetting(settings, item)
               THEN [ o |-> [ o1 EXCEPT !.warned = @ \cup {item.key} ],
                      steps |-> << >> ]
               ELSE [ o |-> writeBackEach(o1, SubItems(item)),
                      steps |-> setValueSteps(item, value) ] :
           o1 \in { getCategory(o, item.category, FALSE) } })

\* setValue without the test of line 337: a setting that was not found is
\* assigned like one that was.
setValue_noGuard(o, item, value) ==
    Only({ LET settings == o1.categoryCache[item.category]
           IN  IF findSetting(settings, item) /\ settings[item.key] = value
               THEN [ o |-> o1, steps |-> << >> ]
               ELSE [ o |-> writeBackEach(o1, SubItems(item)),
                      steps |-> setValueSteps(item, value) ] :
           o1 \in { getCategory(o, item.category, FALSE) } })

\* setValue with the write-back of lines 342-346 moved above the comparison of
\* line 338: the categories of the dependents are written back for an equal
\* value as well.
setValue_writeBackFirst(o, item, value) ==
    Only({ LET settings == o1.categoryCache[item.category]
           IN  IF ~ findSetting(settings, item)
               THEN [ o |-> [ o1 EXCEPT !.warned = @ \cup {item.key} ],
                      steps |-> << >> ]
               ELSE [ o |-> writeBackEach(o1, SubItems(item)),
                      steps |-> IF settings[item.key] = value THEN << >>
                                ELSE setValueSteps(item, value) ] :
           o1 \in { getCategory(o, item.category, FALSE) } })

\* setValue, lines 336-347 and 365-367: find the setting; when it is missing, warn;
\* when its value differs, write back the categories of the dependents.  The
\* state after that, and the steps of setValue that remain.
setValue(o, item, value) ==
    Only({ LET settings == o1.categoryCache[item.category]
           IN  IF ~ findSetting(settings, item)
               THEN [ o |-> [ o1 EXCEPT !.warned = @ \cup {item.key} ],
                      steps |-> << >> ]
               ELSE IF settings[item.key] = value
               THEN [ o |-> o1, steps |-> << >> ]
               ELSE [ o |-> writeBackEach(o1, SubItems(item)),
                      steps |-> setValueSteps(item, value) ] :
           o1 \in { getCategory(o, item.category, FALSE) } })

\* setValue, lines 349-351: setting.value = value; modifiedCategories.add(category).
assign(o, item, value) ==
    [ o EXCEPT
        !.categoryCache[item.category] = Put(@, item.key, value),
        !.modifiedCategories = With(@, item.category),
        !.unsent = @ \cup {item.key},
        !.edited = @ \cup {item.key},
        !.dirtied = TRUE ]

\* The loop of getValues over definitions, as one step for each item.
getValuesSteps(definitions) ==
    [ i \in 1..Len(definitions) |-> Step("getValues", definitions[i].key, UNDEF) ]

RECURSIVE pivotSteps_noPivot(_, _)
\* getValues without line 376: the params of a dependent are read without the
\* item being set to the dependent's value.
pivotSteps_noPivot(item, deps) ==
    IF deps = << >> THEN << >>
    ELSE getValuesSteps(Head(deps).params) \o pivotSteps_noPivot(item, Tail(deps))

RECURSIVE pivotSteps(_, _)
\* getValues, lines 375-380: for every dependent, pivot the item and read its params.
pivotSteps(item, deps) ==
    IF deps = << >> THEN << >>
    ELSE << Step("setValue", item.key, Head(deps).value) >>
         \o getValuesSteps(Head(deps).params)
         \o pivotSteps(item, Tail(deps))

\* getValues without line 381: the item is left on the value of its last dependent.
getValuesItem_noRestore(item, value) ==
    IF item.dependents # << >> THEN pivotSteps(item, item.dependents) ELSE << >>

\* getValues, lines 372-382, for one item whose value was found: the steps it has
\* still to take.
getValuesItem(item, value) ==
    IF item.dependents # << >>
    THEN pivotSteps(item, item.dependents) \o << Step("setValue", item.key, value) >>
    ELSE << >>

RECURSIVE setValuesSteps(_, _)
\* The loop of setValues over definitions: an item with dependents is a step of
\* its own (it reads its value first); an item without sets its value when values
\* names it.
setValuesSteps(vals, definitions) ==
    IF definitions = << >> THEN << >>
    ELSE LET item == Head(definitions)
         IN  ( IF item.dependents # << >>
               THEN << Step("setValues", item.key, UNDEF) >>
               ELSE IF item.key \in DOMAIN vals
               THEN << Step("setValue", item.key, vals[item.key]) >>
               ELSE << >> )
             \o setValuesSteps(vals, Tail(definitions))

RECURSIVE enterSteps_always(_, _, _)
\* setValues without the test of line 392: every dependent is entered.
enterSteps_always(vals, item, deps) ==
    IF deps = << >> THEN << >>
    ELSE << Step("setValue", item.key, Head(deps).value) >>
         \o setValuesSteps(vals, Head(deps).params)
         \o enterSteps_always(vals, item, Tail(deps))

RECURSIVE enterSteps(_, _, _)
\* setValues, lines 391-396: enter every dependent that values names a key of.
enterSteps(vals, item, deps) ==
    IF deps = << >> THEN << >>
    ELSE ( IF isDependValues(vals, Head(deps).params)
           THEN << Step("setValue", item.key, Head(deps).value) >>
                \o setValuesSteps(vals, Head(deps).params)
           ELSE << >> )
         \o enterSteps(vals, item, Tail(deps))

\* setValues with line 397-399 left out: the item is always set back to the value
\* it had, also when values names it.
setValuesItem_keepsCurrent(vals, item, value) ==
    enterSteps(vals, item, item.dependents)
    \o << Step("setValue", item.key, value) >>

\* setValues that sets the item after the loop only when values names it: an
\* item it pivoted to enter a dependent is not set back.
setValuesItem_noRestore(vals, item, value) ==
    enterSteps(vals, item, item.dependents)
    \o ( IF item.key \in DOMAIN vals
         THEN << Step("setValue", item.key, vals[item.key]) >>
         ELSE << >> )

\* setValues that sets the item to its final value before it enters the
\* dependents: lines 397-400 moved above the loop of lines 391-396.
setValuesItem_finalFirst(vals, item, value) ==
    << Step("setValue", item.key,
            IF item.key \in DOMAIN vals THEN vals[item.key] ELSE value) >>
    \o enterSteps(vals, item, item.dependents)

\* setValues, lines 390-400, for one item with dependents whose value was found.
setValuesItem(vals, item, value) ==
    enterSteps(vals, item, item.dependents)
    \o << Step("setValue", item.key,
               IF item.key \in DOMAIN vals THEN vals[item.key] ELSE value) >>

\* ------------------------------------------------------------ diff formatter

\* The strings of definitionParams that contain white space (s.match(/\s/)).
Spaced == { "Audio - Track 1" }

\* function i18nPath: top, then every argument as ".s", or as "['s']" when it
\* contains white space.  The string is held as the sequence of its parts.
i18nPath(top, args) ==
    << top >> \o [ i \in 1..Len(args) |->
                     IF args[i] \in Spaced THEN << "['", args[i], "']" >>
                     ELSE << ".", args[i] >> ]

\* The label: of every definition that gives one.
Labels ==
    [ videoBitrate |-> i18nPath("settings", << "videoBitrate" >>),
      audioBitrate |-> i18nPath("settings", << "audioBitrate" >>),
      encoderPreset |-> i18nPath("settings", << "encoderPreset" >>),
      keyframeInterval |-> i18nPath("settings", << "keyframeInterval" >>),
      quality |-> i18nPath("streaming", << "resolution" >>),
      fps |-> i18nPath("streaming", << "FPS" >>) ]

\* The keys of the definitions that set lookupValueName: true.
LookupValueName ==
    { "outputMode", "encoder", "encoderPreset", "tune", "profile", "quality" }

\* $t of services/i18n: the translation of a path the dictionary has, and the
\* path itself when it has none.
translate(dict, path) == IF path \in dict THEN << "$t", path >> ELSE path

\* class OptKeyProperty, constructor.
OptKeyProperty(options) ==
    [ key |-> options.key, category |-> options.category,
      subCategory |-> options.subCategory, setting |-> options.setting,
      label |-> IF options.key \in DOMAIN Labels THEN Labels[options.key]
                ELSE i18nPath("settings", << options.category, options.subCategory,
                                            options.setting, "name" >>),
      lookupValueName |-> options.key \in LookupValueName ]

\* OptKeyProperty, get label(): the translation of the label, or the setting.
OptKeyProperty_label(dict, opt) ==
    IF translate(dict, opt.label) # opt.label THEN translate(dict, opt.label)
    ELSE opt.setting

\* OptKeyProperty.value(v)
OptKeyProperty_value(dict, opt, v) ==
    IF v = UNDEF THEN UNDEF
    ELSE IF opt.lookupValueName
    THEN LET path == i18nPath("settings", << opt.category, opt.subCategory,
                                             opt.setting, v >>)
         IN  IF path # translate(dict, path) THEN translate(dict, path) ELSE v
    ELSE v

\* The property of an object, undefined when it has none (object[key]).
Get(object, key) == IF key \in DOMAIN object THEN object[key] ELSE UNDEF

\* optimizeInfo, lines 421-438: the item of one definition.
optimizeItem(dict, cur, optimized, definition) ==
    LET opt == OptKeyProperty(definition)
    IN  IF opt.key \in DOMAIN optimized
        THEN [ key |-> opt.key, name |-> OptKeyProperty_label(dict, opt),
               currentValue |-> OptKeyProperty_value(dict, opt, Get(cur, opt.key)),
               newValue |-> OptKeyProperty_value(dict, opt, Get(optimized, opt.key)) ]
        ELSE [ key |-> opt.key, name |-> OptKeyProperty_label(dict, opt),
               currentValue |-> OptKeyProperty_value(dict, opt, Get(cur, opt.key)) ]

RECURSIVE optimizeInfoEach(_, _, _, _, _)
\* optimizeInfo, the loop of lines 420-445: map is the Map in insertion order,
\* every entry the pair of a category and its items.
optimizeInfoEach(dict, cur, optimized, definitions, map) ==
    IF definitions = << >> THEN map
    ELSE LET item == optimizeItem(dict, cur, optimized, Head(definitions))
             category == Head(definitions).category
             has == { i \in DOMAIN map : map[i][1] = category }
         IN  optimizeInfoEach(dict, cur, optimized, Tail(definitions),
                 IF has = {} THEN Append(map, << category, << item >> >>)
                 ELSE [ map EXCEPT ![CHOOSE i \in has : TRUE][2] = Append(@, item) ])

\* optimizeInfo over this.definitions alone, without iterateDefinitions: the
\* definitions of the dependents are left out.
optimizeInfo_rootOnly(dict, cur, optimized) ==
    optimizeInfoEach(dict, cur, optimized, definitionParams, << >>)

\* Optimizer.optimizeInfo(current, optimized), under a translation dictionary.
optimizeInfo(dict, cur, optimized) ==
    optimizeInfoEach(dict, cur, optimized, iterateDefinitions(definitionParams), << >>)

\* function validateDefinitionParams: the keys of OptimizationKey, in the order
\* of the enum, that no definition of params declares (the missing list; a
\* console.error follows when it is not empty).
validateDefinitionParams(params) ==
    LET actual == Range(KeysOf(iterateDefinitions(params)))
        keys == << "outputMode", "videoBitrate", "audioBitrate", "quality",
                   "colorSpace", "fps", "encoder", "keyframeInterval", "encoderPreset",
                   "profile", "tune", "audioTrackIndex" >>
    IN  SelectSeq(keys, LAMBDA key : key \notin actual)

\* ------------------------------------------------------------ inputs

\* The most keys the caller's target snapshot names.
MaxTargetKeys == 2

\* The most public calls made on the one Optimizer instance.
MaxCalls == 2

\* The value every field without dependents has in the store at the start.
InitialValue ==
    [ videoBitrate |-> "2500", audioBitrate |-> "128", quality |-> "1280x720",
      colorSpace |-> "709", fps |-> "30", keyframeInterval |-> "2",
      encoderPreset |-> "veryfast", profile |-> "main", tune |-> "zerolatency",
      audioTrackIndex |-> "1" ]

\* The value a target snapshot asks for, for every field without dependents.
TargetValue ==
    [ videoBitrate |-> "6000", audioBitrate |-> "192", quality |-> "1920x1080",
      colorSpace |-> "601", fps |-> "60", keyframeInterval |-> "0",
      encoderPreset |-> "ultrafast", profile |-> "high", tune |-> "film",
      audioTrackIndex |-> "3" ]

\* The values a field with dependents takes: the selector value of its declared
\* branch and one value that selects no declared branch.
BranchValues(k) ==
    { Def(k).dependents[j].value : j \in DOMAIN Def(k).dependents }
    \cup { IF k = "outputMode" THEN "Simple" ELSE "ffmpeg_nvenc" }

\* The values a target snapshot may give key k.
TargetValues(k) ==
    IF Def(k).dependents # << >> THEN BranchValues(k) ELSE { TargetValue[k] }

\* The target snapshots the caller may hold: at most MaxTargetKeys keys, any of
\* OptimizationKey.
Targets ==
    UNION { { f \in [ S -> UNION { TargetValues(k) : k \in S } ] :
                \A k \in S : f[k] \in TargetValues(k) } :
            S \in { T \in SUBSET OptimizationKey : Cardinality(T) <= MaxTargetKeys } }

\* The fields one of which the store's schema may lack (schema drift).
DriftKeys == { "outputMode", "encoder", "videoBitrate", "quality" }

\* The schemas of the store: complete, or lacking one field.
Schemas == { OptimizationKey } \cup { OptimizationKey \ {k} : k \in DriftKeys }

\* The keys of the fields with dependents.
BranchKeys == { k \in OptimizationKey : Def(k).dependents # << >> }

\* The stores at the start: every field with dependents on any of its values,
\* every other field on its initial value.
Stores ==
    { [ k \in OptimizationKey |-> IF k \in BranchKeys THEN b[k] ELSE InitialValue[k] ] :
        b \in { c \in [ BranchKeys -> UNION { BranchValues(k) : k \in BranchKeys } ] :
                  \A k \in BranchKeys : c[k] \in BranchValues(k) } }

\* A map without entries.
Empty == [ k \in {} |-> UNDEF ]

\* The target snapshots optimizeInfo and isDependValues may be passed: those of
\* the caller, and those that name one key as an own property whose value is
\* undefined.
FunctionTargets == Targets \cup { [ k \in {j} |-> UNDEF ] : j \in OptimizationKey }

\* The current snapshots optimizeInfo may be passed: one without keys, the
\* values of a store at the start, and those with one value undefined.
Currents ==
    {Empty} \cup Stores \cup { [ st EXCEPT ![k] = UNDEF ] : st \in Stores, k \in DriftKeys }

\* The paths of the labels of all definitions.
LabelPaths == { OptKeyProperty(d).label : d \in Range(AllDefinitions) }

\* The paths of the values the fields with lookupValueName: true take.
ValuePaths ==
    { i18nPath("settings", << Def(k).category, Def(k).subCategory, Def(k).setting, v >>) :
        k \in LookupValueName,
        v \in UNION { BranchValues(j) : j \in BranchKeys }
              \cup { InitialValue[j] : j \in DOMAIN InitialValue }
              \cup { TargetValue[j] : j \in DOMAIN TargetValue } }

\* The translation dictionaries: without entries, with the labels, with the
\* labels and the values.
Dictionaries == { {}, LabelPaths, LabelPaths \cup ValuePaths }

\* The items of a list at the indexes of I, in the order of the list.
Pick(list, I) ==
    LET RECURSIVE from(_)
        from(i) == IF i > Len(list) THEN << >>
                   ELSE ( IF i \in I THEN << list[i] >> ELSE << >> ) \o from(i + 1)
    IN  from(1)

\* The lists of items isDependValues may be passed: definitionParams, the
\* params of every dependent in it, and every list of some items of one of them.
NodeLists ==
    UNION { { Pick(list, I) : I \in SUBSET DOMAIN list } :
            list \in { definitionParams }
                     \cup UNION { { d.dependents[j].params : j \in DOMAIN d.dependents } :
                                  d \in Range(AllDefinitions) } }

\* ------------------------------------------------------------ behaviour

Init ==
    /\ store \in Stores
    /\ schema \in Schemas
    /\ target \in Targets
    /\ categoryCache = Empty
    /\ modifiedCategories = << >>
    /\ pc = "idle"
    /\ stack = << >>
    /\ values = Empty
    /\ result = Empty
    /\ calls = 0
    /\ prev = "none"
    /\ before = "none"
    /\ arg = "none"
    /\ store0 = store
    /\ unsent = {}
    /\ edited = {}
    /\ stale = {}
    /\ carried = {}
    /\ reused = FALSE
    /\ sent = FALSE
    /\ dirtied = FALSE
    /\ warned = {}
    /\ applied = "none"
    /\ current = Empty
    /\ dictionary = {}
    /\ info = << >>
    /\ missing = << >>
    /\ nodes = << >>
    /\ depends = FALSE

\* A public method is entered and will take the given steps.
Enter(method, steps) ==
    /\ pc = "idle"
    /\ calls < MaxCalls
    /\ pc' = method
    /\ stack' = steps
    /\ calls' = calls + 1
    /\ before' = prev
    /\ store0' = store
    /\ carried' = DOMAIN categoryCache
    /\ reused' = FALSE
    /\ sent' = FALSE
    /\ dirtied' = FALSE
    /\ warned' = {}
    /\ result' = Empty
    /\ UNCHANGED << store, schema, categoryCache, modifiedCategories, target, prev,
                    unsent, edited, stale >>
    /\ UNCHANGED functionVars

\* getCurrentSettings(): Object.assign({}, ...this.getValues(this.definitions))
getCurrentSettings ==
    /\ Enter("getCurrentSettings", getValuesSteps(definitionParams))
    /\ UNCHANGED << values, arg >>

\* optimize without line 415: setValues alone.
optimizeSteps_noWriteBackAll(optimized) ==
    setValuesSteps(optimized, definitionParams)

\* The steps of optimize(optimized): setValues, then writeBackAllCategories.
optimizeSteps(optimized) ==
    setValuesSteps(optimized, definitionParams)
    \o << Step("writeBackAllCategories", UNDEF, UNDEF) >>

\* optimize(optimized), the caller passing its target snapshot.
optimize ==
    /\ Enter("optimize", optimizeSteps(target))
    /\ values' = target
    /\ arg' = "target"

\* optimize(optimized), the caller passing the snapshot getCurrentSettings has
\* just returned.
optimizeCurrent ==
    /\ prev = "getCurrentSettings"
    /\ Enter("optimize", optimizeSteps(result))
    /\ values' = result
    /\ arg' = "current"

\* The running method takes the step at the head of its steps.
Running(op) == pc # "idle" /\ stack # << >> /\ Head(stack).op = op

\* getValues: one item of the loop (lines 372-382).
getValues ==
    /\ Running("getValues")
    /\ LET item == Def(Head(stack).key)
           value == findValue(Cur, item)
       IN  /\ \E o \in { getCategory(Cur, item.category, FALSE) } : Commit(o)
           /\ result' = Put(result, item.key, value)
           /\ stack' = getValuesItem(item, value) \o Tail(stack)
    /\ UNCHANGED << pc, values, target, calls, prev, before, arg, store0 >>
    /\ UNCHANGED functionVars

\* setValues: one item with dependents of the loop (lines 390-400).
setValues ==
    /\ Running("setValues")
    /\ LET item == Def(Head(stack).key)
           value == findValue(Cur, item)
       IN  /\ \E o \in { getCategory(Cur, item.category, FALSE) } : Commit(o)
           /\ stack' = setValuesItem(values, item, value) \o Tail(stack)
    /\ UNCHANGED << pc, values, result, target, calls, prev, before, arg, store0 >>
    /\ UNCHANGED functionVars

\* setValue, up to the write-back of the dependents.
setValueCall ==
    /\ Running("setValue")
    /\ \E r \in { setValue(Cur, Def(Head(stack).key), Head(stack).value) } :
           /\ Commit(r.o)
           /\ stack' = r.steps \o Tail(stack)
    /\ UNCHANGED << pc, values, result, target, calls, prev, before, arg, store0 >>
    /\ UNCHANGED functionVars

\* setValue: the assignment.
setValueAssign ==
    /\ Running("assign")
    /\ \E o \in { assign(Cur, Def(Head(stack).key), Head(stack).value) } : Commit(o)
    /\ stack' = Tail(stack)
    /\ UNCHANGED << pc, values, result, target, calls, prev, before, arg, store0 >>
    /\ UNCHANGED functionVars

\* setValue: the immediate write-back of the category of an item with dependents.
setValueWriteBack ==
    /\ Running("writeBack")
    /\ \E o \in { writeBackCategory(Cur, Def(Head(stack).key).category) } : Commit(o)
    /\ stack' = Tail(stack)
    /\ UNCHANGED << pc, values, result, target, calls, prev, before, arg, store0 >>
    /\ UNCHANGED functionVars

\* setValue: the caches of the dependents are forgotten.
setValueForget ==
    /\ Running("forget")
    /\ \E o \in { forgetEach(Cur, SubItems(Def(Head(stack).key))) } : Commit(o)
    /\ stack' = Tail(stack)
    /\ UNCHANGED << pc, values, result, target, calls, prev, before, arg, store0 >>
    /\ UNCHANGED functionVars

\* optimize: writeBackAllCategories.
optimizeWriteBack ==
    /\ Running("writeBackAllCategories")
    /\ \E o \in { writeBackAllCategories(Cur) } : Commit(o)
    /\ stack' = Tail(stack)
    /\ UNCHANGED << pc, values, result, target, calls, prev, before, arg, store0 >>
    /\ UNCHANGED functionVars

\* The running method returns.
Return ==
    /\ pc # "idle"
    /\ stack = << >>
    /\ pc' = "idle"
    /\ prev' = pc
    /\ UNCHANGED << store, schema, categoryCache, modifiedCategories, stack, values,
                    result, target, calls, before, arg, store0, unsent, edited, stale,
                    carried, reused, sent, dirtied, warned >>
    /\ UNCHANGED functionVars

Next ==
    \/ getCurrentSettings
    \/ optimize
    \/ optimizeCurrent
    \/ getValues
    \/ setValues
    \/ setValueCall
    \/ setValueAssign
    \/ setValueWriteBack
    \/ setValueForget
    \/ optimizeWriteBack
    \/ Return

Spec == Init /\ [][Next]_vars

\* ------------------------------------------------------------ functions

\* The functions that use no store, applied by themselves: the caller holds a
\* target snapshot, the Optimizer has no call running and nothing cached.
FunctionsInit ==
    /\ target \in FunctionTargets
    /\ store = Empty
    /\ schema = {}
    /\ categoryCache = Empty
    /\ modifiedCategories = << >>
    /\ pc = "idle"
    /\ stack = << >>
    /\ values = Empty
    /\ result = Empty
    /\ calls = 0
    /\ prev = "none"
    /\ before = "none"
    /\ arg = "none"
    /\ store0 = Empty
    /\ unsent = {}
    /\ edited = {}
    /\ stale = {}
    /\ carried = {}
    /\ reused = FALSE
    /\ sent = FALSE
    /\ dirtied = FALSE
    /\ warned = {}
    /\ applied = "none"
    /\ current = Empty
    /\ dictionary = {}
    /\ info = << >>
    /\ missing = << >>
    /\ nodes = << >>
    /\ depends = FALSE

\* optimizeInfo(current, optimized) is called with a current snapshot and the
\* target, under a translation dictionary.
optimizeInfoCall ==
    /\ applied = "none"
    /\ \E cur \in Currents, dict \in Dictionaries :
           /\ current' = cur
           /\ dictionary' = dict
           /\ info' = optimizeInfo(dict, cur, target)
    /\ applied' = "optimizeInfo"
    /\ UNCHANGED << optimizerVars, target, missing, nodes, depends >>

\* validateDefinitionParams(definitionParams), as run when the module is loaded.
validateCall ==
    /\ applied = "none"
    /\ missing' = validateDefinitionParams(definitionParams)
    /\ applied' = "validateDefinitionParams"
    /\ UNCHANGED << optimizerVars, target, current, dictionary, info, nodes, depends >>

\* isDependValues(values, items) is called with the target and a list of items.
isDependValuesCall ==
    /\ applied = "none"
    /\ \E items \in NodeLists :
           /\ nodes' = items
           /\ depends' = isDependValues(target, items)
    /\ applied' = "isDependValues"
    /\ UNCHANGED << optimizerVars, target, current, dictionary, info, missing >>

FunctionsNext ==
    \/ optimizeInfoCall
    \/ validateCall
    \/ isDependValuesCall

FunctionsSpec == FunctionsInit /\ [][FunctionsNext]_vars

\* ------------------------------------------------------------ properties

RECURSIVE InSchema(_)
\* The store's schema has field k and every field above it: the store shows k
\* once the fields above it hold the selector values.
InSchema(k) ==
    /\ k \in schema
    /\ ParentOf(k) = << >> \/ InSchema(ParentOf(k)[1])

\* The public method has returned and no other call has begun.
Returned(method) == pc = "idle" /\ prev = method

\* The keys declared under the dependents of branching key p whose selector
\* value is not v.
OtherBranches(p, v) ==
    UNION { { d.key : d \in Range(iterateDefinitions(Def(p).dependents[j].params)) } :
            j \in { i \in DOMAIN Def(p).dependents : Def(p).dependents[i].value # v } }

\* The selector values of the dependents of branching key p.
Selectors(p) == { Def(p).dependents[j].value : j \in DOMAIN Def(p).dependents }

\* C1 as stated: after optimize(values) and then getCurrentSettings(), the
\* snapshot gives every key of values the value values gave it.
C1_RoundTripEveryKey ==
    (Returned("getCurrentSettings") /\ before = "optimize")
        => \A k \in DOMAIN values : k \in DOMAIN result /\ result[k] = values[k]

\* C1 amended: after optimize(values) and then getCurrentSettings(), the snapshot
\* gives every key of values whose field the store's schema has (with every field
\* above it) the value values gave it; a key whose field is missing reads undefined.
C1_RoundTrip ==
    (Returned("getCurrentSettings") /\ before = "optimize")
        => \A k \in DOMAIN values :
               /\ k \in DOMAIN result
               /\ result[k] = IF InSchema(k) THEN values[k] ELSE UNDEF

\* C1 witness: optimize set videoBitrate under the Advanced branch, left
\* outputMode on Simple, and the read that followed reports the new bitrate.
C1_Witness ==
    /\ Returned("getCurrentSettings") /\ before = "optimize" /\ arg = "target"
    /\ "videoBitrate" \in DOMAIN values
    /\ store["outputMode"] = "Simple"
    /\ result["videoBitrate"] = TargetValue["videoBitrate"]

\* C2 as stated: when values gives a branching field a value, optimize leaves
\* every field of its other branches as it was.
C2_OtherBranchesUntouched ==
    Returned("optimize")
        => \A p \in BranchKeys \cap DOMAIN values :
               \A k \in OtherBranches(p, values[p]) : store[k] = store0[k]

\* C2 amended: when values gives a branching field a value, optimize changes, of
\* the fields of its other branches, exactly those values names and the store
\* has: each of them holds the value values gave it, every other one is as it was.
C2_OtherBranchesOnlyNamed ==
    Returned("optimize")
        => \A p \in BranchKeys \cap DOMAIN values :
               \A k \in OtherBranches(p, values[p]) :
                   store[k] = IF k \in DOMAIN values /\ InSchema(k)
                              THEN values[k] ELSE store0[k]

\* C2 witness: values asked for outputMode Simple and named encoderPreset, two
\* branches down; the preset was applied, encoder is back on its value.
C2_Witness ==
    /\ Returned("optimize") /\ arg = "target"
    /\ "outputMode" \in DOMAIN values /\ values["outputMode"] = "Simple"
    /\ "encoderPreset" \in DOMAIN values
    /\ store0["encoder"] # "obs_x264"
    /\ store["encoderPreset"] = values["encoderPreset"]
    /\ store["encoderPreset"] # store0["encoderPreset"]
    /\ store["encoder"] = store0["encoder"]

\* optimize is running on, or has returned from, the snapshot that
\* getCurrentSettings had just returned.
OptimizingCurrent ==
    arg = "current" /\ (pc = "optimize" \/ Returned("optimize"))

\* C3 as stated: optimize on the current snapshot calls setSettings never and
\* adds no category to modifiedCategories, whatever the store.
C3_NoMutationAnyStore ==
    OptimizingCurrent => ~ sent /\ ~ dirtied

\* C3 amended: optimize on the current snapshot calls setSettings never and adds
\* no category to modifiedCategories when every branching field the store shows
\* holds a declared selector value; in every case the store holds the same
\* values when optimize returns as when it began.
C3_NoMutationOnSelector ==
    /\ ( OptimizingCurrent
         /\ \A p \in BranchKeys :
                Materialized(store0, schema, p) => store0[p] \in Selectors(p) )
           => ~ sent /\ ~ dirtied
    /\ (arg = "current" /\ Returned("optimize")) => store = store0

\* C3 witness: optimize on the current snapshot has returned, the store complete
\* and on Advanced and obs_x264.
C3_Witness ==
    /\ arg = "current" /\ Returned("optimize")
    /\ schema = OptimizationKey
    /\ store0["outputMode"] = "Advanced" /\ store0["encoder"] = "obs_x264"
    /\ ~ sent /\ ~ dirtied

\* C4: every edit made in the cache that the store has not taken is still held
\* in the cache, in a category marked modified: forgetCategoryCache never drops
\* a cached category whose edits have not reached the store.
C4_FlushBeforeForget ==
    \A k \in unsent :
        /\ Def(k).category \in DOMAIN categoryCache
        /\ k \in DOMAIN categoryCache[Def(k).category]
        /\ Def(k).category \in Range(modifiedCategories)

\* C4 witness: setValue is about to forget the caches of the dependents of
\* outputMode, which it changed; the edit of videoBitrate made in the cache
\* during this call is in the store.
C4_Witness ==
    /\ pc = "optimize" /\ Running("forget") /\ Head(stack).key = "outputMode"
    /\ "Output" \in DOMAIN categoryCache
    /\ "videoBitrate" \in DOMAIN categoryCache["Output"]
    /\ categoryCache["Output"]["videoBitrate"] # store0["videoBitrate"]
    /\ store["videoBitrate"] = categoryCache["Output"]["videoBitrate"]
    /\ store["outputMode"] # "Advanced"

\* C5: when getCurrentSettings() returns, every branching field holds in the
\* store the value it held when the call began.
C5_NoResidualPivot ==
    Returned("getCurrentSettings") => \A p \in BranchKeys : store[p] = store0[p]

\* C5 witness: the read has returned on a store with outputMode on Simple and
\* encoder off obs_x264, after it sent pivots to the store.
C5_Witness ==
    /\ Returned("getCurrentSettings") /\ schema = OptimizationKey /\ sent
    /\ store["outputMode"] = "Simple" /\ store["encoder"] # "obs_x264"
    /\ DOMAIN result = OptimizationKey

\* C6: the snapshot getCurrentSettings() returns has an entry for every key of
\* OptimizationKey; the entry is the value the store holds for the field, also
\* under a branch that was not the active one, and undefined for a field the
\* store lacks.
C6_ExhaustiveRead ==
    Returned("getCurrentSettings")
        => /\ DOMAIN result = OptimizationKey
           /\ \A k \in OptimizationKey :
                  result[k] = IF InSchema(k) THEN store0[k] ELSE UNDEF

\* C6 witness: the read has returned the values of encoderPreset and
\* videoBitrate of a store that shows neither: outputMode is on Simple.
C6_Witness ==
    /\ Returned("getCurrentSettings")
    /\ store0["outputMode"] = "Simple" /\ store0["encoder"] # "obs_x264"
    /\ result["encoderPreset"] = InitialValue["encoderPreset"]
    /\ result["videoBitrate"] = InitialValue["videoBitrate"]

\* C7: when optimize returns, modifiedCategories is empty and the store has
\* taken every edit setValue made in the cache.
C7_DurableByReturn ==
    Returned("optimize") => modifiedCategories = << >> /\ unsent = {}

\* C7 witness: optimize has returned after editing videoBitrate in a branch it
\* entered only for that, and quality in another category; the store has both.
C7_Witness ==
    /\ Returned("optimize") /\ dirtied /\ sent
    /\ store["outputMode"] = "Simple"
    /\ store["videoBitrate"] = TargetValue["videoBitrate"]
    /\ store0["videoBitrate"] # TargetValue["videoBitrate"]
    /\ store["quality"] = TargetValue["quality"]
    /\ store0["quality"] # TargetValue["quality"]

\* C8: during optimize, a field declared under a branch is assigned only when
\* the store holds the selector value for its parent and the category's cached
\* form data was loaded after that switch was sent; and when values names the
\* parent with the selector value and the child, both are in the store when
\* optimize returns.
C8_ParentBeforeChild ==
    /\ (pc = "optimize" /\ Running("assign") /\ ParentOf(Head(stack).key) # << >>)
           => /\ store[ParentOf(Head(stack).key)[1]] = ParentOf(Head(stack).key)[2]
              /\ Def(Head(stack).key).category \notin stale
    /\ Returned("optimize")
           => \A k \in DOMAIN values :
                  ( /\ ParentOf(k) # << >>
                    /\ InSchema(k)
                    /\ ParentOf(k)[1] \in DOMAIN values
                    /\ values[ParentOf(k)[1]] = ParentOf(k)[2] )
                      => /\ store[ParentOf(k)[1]] = ParentOf(k)[2]
                         /\ store[k] = values[k]

\* C8 witness: optimize({outputMode: "Advanced", videoBitrate}) has returned on
\* a store that began on Simple; the store holds both.
C8_Witness ==
    /\ Returned("optimize")
    /\ DOMAIN values = { "outputMode", "videoBitrate" }
    /\ store0["outputMode"] = "Simple"
    /\ store["outputMode"] = "Advanced"
    /\ store["videoBitrate"] = values["videoBitrate"]
    /\ store0["videoBitrate"] # values["videoBitrate"]

\* C9 as stated: no public call is served category form data that an earlier
\* public call on the same instance loaded into the cache.
C9_CacheNotCarried == ~ reused

\* The form data setValue finds the setting of the step at the head in: the
\* cached one, or the one getCategory loads.
FormDataAtHead ==
    LET category == Def(Head(stack).key).category
    IN  IF category \in DOMAIN categoryCache THEN categoryCache[category]
        ELSE getSettingsFormData(store, schema, category)

\* setValue is about to be called for a setting its category's form data lacks.
SettingMissing ==
    Running("setValue") /\ Head(stack).key \notin DOMAIN FormDataAtHead

\* C10, the skip: a setValue that does not find its setting changes no field of
\* the store or of a cached form data, marks no category modified, calls
\* setSettings not, drops no cache entry, and the method goes on with its next step.
C10_SkipStep ==
    SettingMissing
        => /\ store' = store
           /\ modifiedCategories' = modifiedCategories
           /\ unsent' = unsent
           /\ sent' = sent
           /\ DOMAIN categoryCache \subseteq DOMAIN categoryCache'
           /\ \A c \in DOMAIN categoryCache : categoryCache'[c] = categoryCache[c]
           /\ Head(stack).key \in warned'
           /\ stack' = Tail(stack)

\* C10, the batch: when optimize returns, every field values names that the
\* store has holds the value values gave it, whatever settings were missing.
C10_BatchProceeds ==
    Returned("optimize")
        => \A k \in DOMAIN values : InSchema(k) => store[k] = values[k]

\* C10: a missing field is skipped and the batch proceeds.
C10_MissingFieldSkipped == [][C10_SkipStep]_vars /\ []C10_BatchProceeds

\* C10 witness: optimize has returned; it did not find videoBitrate, which the
\* store lacks, and has set quality, which values named as well.
C10_Witness ==
    /\ Returned("optimize")
    /\ "videoBitrate" \in warned /\ "videoBitrate" \in DOMAIN values
    /\ "quality" \in DOMAIN values
    /\ store["quality"] = values["quality"] /\ store0["quality"] # values["quality"]

\* The places of the items of info: the index of a category's entry and the
\* index of an item in its list.
InfoPlaces == UNION { { << i, j >> : j \in DOMAIN info[i][2] } : i \in DOMAIN info }

\* C11: optimizeInfo(current, target) returns one item for every key of
\* OptimizationKey and no other, every item in the list of the category of its
\* definition, one list for a category, and an item has the field newValue
\* exactly when target has the key as an own property.
C11_DiffComplete ==
    applied = "optimizeInfo"
        => /\ \A k \in OptimizationKey :
                  Cardinality({ p \in InfoPlaces : info[p[1]][2][p[2]].key = k }) = 1
           /\ \A p \in InfoPlaces :
                  /\ info[p[1]][2][p[2]].key \in OptimizationKey
                  /\ info[p[1]][1] = Def(info[p[1]][2][p[2]].key).category
                  /\ "newValue" \in DOMAIN info[p[1]][2][p[2]]
                         <=> info[p[1]][2][p[2]].key \in DOMAIN target
           /\ \A i, j \in DOMAIN info : info[i][1] = info[j][1] => i = j

\* C11 witness: optimizeInfo was passed the values of a store and a target that
\* names encoderPreset and fps; the item of encoderPreset, in the list of Output,
\* has newValue, the item of quality, in the list of Video, has none.
C11_Witness ==
    /\ applied = "optimizeInfo"
    /\ DOMAIN target = { "encoderPreset", "fps" }
    /\ DOMAIN current = OptimizationKey
    /\ \E p, q \in InfoPlaces :
           /\ info[p[1]][1] = "Output"
           /\ info[p[1]][2][p[2]].key = "encoderPreset"
           /\ "newValue" \in DOMAIN info[p[1]][2][p[2]]
           /\ info[q[1]][1] = "Video"
           /\ info[q[1]][2][q[2]].key = "quality"
           /\ "newValue" \notin DOMAIN info[q[1]][2][q[2]]

\* C12: iterateDefinitions over definitionParams (AllDefinitions) yields every
\* key of OptimizationKey, each from one item alone, and
\* validateDefinitionParams finds no key missing.
C12_KeyUniqueness ==
    /\ { d.key : d \in Range(AllDefinitions) } = OptimizationKey
    /\ \A i, j \in DOMAIN AllDefinitions :
           AllDefinitions[i].key = AllDefinitions[j].key => i = j
    /\ applied = "validateDefinitionParams" => missing = << >>

\* C12 witness: validateDefinitionParams has run over the twelve definitions and
\* found no key missing.
C12_Witness ==
    /\ applied = "validateDefinitionParams"
    /\ missing = << >>
    /\ Len(AllDefinitions) = Cardinality(OptimizationKey)

\* C18: isDependValues(target, nodes) returns true exactly when target has, as
\* an own property, a key of an item that iterateDefinitions(nodes) yields.
C18_TouchesExact ==
    applied = "isDependValues"
        => ( depends <=> \E d \in Range(iterateDefinitions(nodes)) :
                             d.key \in DOMAIN target )

\* C18 witness: isDependValues was passed the one item outputMode and a target
\* that names tune alone, two dependents down, and returned true.
C18_Witness ==
    /\ applied = "isDependValues"
    /\ KeysOf(nodes) = << "outputMode" >>
    /\ DOMAIN target = { "tune" }
    /\ depends

\* C13: between the steps of setValue, getValues and setValues, a category is in
\* modifiedCategories exactly when a field of it was edited in its cached form
\* data since setSettings last sent the category; forgetCategoryCache, which
\* takes the category out of the set, finds no such field.
C13_DirtyIffEdited ==
    \A c \in CategoryName :
        c \in Range(modifiedCategories) <=> \E k \in edited : Def(k).category = c

\* C13 witness: setValue is about to forget the caches of the dependents of
\* encoder, which it changed; videoBitrate, edited earlier in this call in the
\* same category, was sent with the write-backs, and Output is in the cache and
\* no longer in modifiedCategories.
C13_Witness ==
    /\ pc = "optimize" /\ Running("forget") /\ Head(stack).key = "encoder"
    /\ "videoBitrate" \in DOMAIN values
    /\ store["videoBitrate"] = values["videoBitrate"]
    /\ store0["videoBitrate"] # values["videoBitrate"]
    /\ "Output" \in DOMAIN categoryCache
    /\ "Output" \notin Range(modifiedCategories)
    /\ edited = {}

\* C14, the order: a step that changes a branching field in the store is the
\* write-back of setValue for that field, it sends the value setValue was
\* given, and the step that follows it forgets the caches of the field's
\* dependents.
C14_SwitchStep ==
    \A p \in BranchKeys :
        store'[p] # store[p]
            => /\ Running("writeBack") /\ Head(stack).key = p
               /\ store'[p] = Head(stack).value
               /\ stack' = Tail(stack)
               /\ Head(stack').op = "forget" /\ Head(stack').key = p

\* C14, the removal: the forgetting leaves no cache entry for a category of a
\* field declared under the item.
C14_ForgetStep ==
    Running("forget")
        => \A c \in BranchCategories(Def(Head(stack).key)) : c \notin DOMAIN categoryCache'

\* C14, the views: form data cached before a switch that was sent is in the
\* cache only until that forgetting, so no read or write of a field works on it.
C14_NoStaleView == stale = {} \/ Running("forget")

\* C14: after setValue changed a branching field, setSettings for its category,
\* then the removal of the cache entries of its dependents' categories, and every
\* later read or write of a dependent works on form data loaded after the switch.
C14_NoStaleChildView ==
    [][C14_SwitchStep /\ C14_ForgetStep]_vars /\ []C14_NoStaleView

\* C14 witness: getValues is about to read videoBitrate after the pivot of
\* outputMode from Simple to Advanced was sent; Output has no cache entry, so the
\* read loads the form data anew.
C14_Witness ==
    /\ pc = "getCurrentSettings" /\ Running("getValues")
    /\ Head(stack).key = "videoBitrate"
    /\ store0["outputMode"] = "Simple" /\ store["outputMode"] = "Advanced"
    /\ "Output" \notin DOMAIN categoryCache
    /\ stale = {}

\* The params of the dependent of branching key p whose selector value is v.
BranchParams(p, v) ==
    Def(p).dependents[CHOOSE j \in DOMAIN Def(p).dependents :
                          Def(p).dependents[j].value = v].params

RECURSIVE Visited(_)
\* setValues(values, ...) reaches the item of key k: it is an item of
\* definitionParams, or setValues reaches its parent and enters the dependent
\* that declares it, values naming a key under that dependent.
Visited(k) ==
    \/ ParentOf(k) = << >>
    \/ /\ Visited(ParentOf(k)[1])
       /\ isDependValues(values, BranchParams(ParentOf(k)[1], ParentOf(k)[2]))

\* C15 as stated: when optimize(values) returns, every branching field that
\* setValues reached holds in the store values[key] when values names the key,
\* and otherwise the value it held when the call began.
C15_FinalValueAnyStore ==
    Returned("optimize")
        => \A p \in BranchKeys :
               Visited(p) => store[p] = IF p \in DOMAIN values THEN values[p]
                                        ELSE store0[p]

\* C15 amended: when optimize(values) returns, every branching field that
\* setValues reached and that the store has (with every field above it) holds
\* values[key] when values names the key, and otherwise the value it held when
\* the call began; a branching field the store lacks is skipped.
C15_FinalValue ==
    Returned("optimize")
        => \A p \in BranchKeys :
               Visited(p) => store[p] = IF p \in DOMAIN values /\ InSchema(p)
                                        THEN values[p] ELSE store0[p]

\* C15 witness: optimize({encoder: "ffmpeg_nvenc", tune}) has returned on a store
\* that began on Simple and obs_x264: outputMode, entered for both keys, is back
\* on Simple, encoder, entered for tune, is on the value the target gave it.
C15_Witness ==
    /\ Returned("optimize")
    /\ DOMAIN values = { "encoder", "tune" } /\ values["encoder"] = "ffmpeg_nvenc"
    /\ store0["outputMode"] = "Simple" /\ store0["encoder"] = "obs_x264"
    /\ store["outputMode"] = "Simple" /\ store["encoder"] = "ffmpeg_nvenc"
    /\ store["tune"] = values["tune"] /\ store0["tune"] # values["tune"]

\* A snapshot names, as an own property, a key of an item that flattening
\* params yields.
Touches(vals, params) ==
    \E d \in Range(iterateDefinitions(params)) : d.key \in DOMAIN vals

\* The keys of the items declared anywhere under branching key p.
Subtree(p) == { d.key : d \in Range(iterateDependents(Def(p).dependents)) }

\* C16, entering: during optimize(values), setValue is called for a branching
\* field with the selector value of a dependent only when values names a key
\* under that dependent, or when that value is the final one of lines 397-400:
\* the one values gives the field, or the one the field held.
C16_EnterOnlyTouched ==
    ( /\ pc = "optimize" /\ Running("setValue")
      /\ Head(stack).key \in BranchKeys
      /\ Head(stack).value \in Selectors(Head(stack).key) )
        => \/ Touches(values, BranchParams(Head(stack).key, Head(stack).value))
           \/ Head(stack).value = IF Head(stack).key \in DOMAIN values
                                  THEN values[Head(stack).key]
                                  ELSE store0[Head(stack).key]

\* C16, the untouched: when values names neither a branching field nor a key
\* under it, optimize(values) takes for that field no step of setValue beyond
\* the comparison (no assignment, no write-back, no forgetting), and the field
\* and the fields under it hold in the store what they held when the call began.
C16_UntouchedKept ==
    (pc = "optimize" \/ Returned("optimize"))
        => \A p \in BranchKeys :
               (p \notin DOMAIN values /\ Subtree(p) \cap DOMAIN values = {})
                   => /\ ~ ( /\ pc = "optimize" /\ stack # << >>
                             /\ Head(stack).key = p
                             /\ Head(stack).op \in { "assign", "writeBack", "forget" } )
                      /\ \A k \in {p} \cup Subtree(p) : store[k] = store0[k]

\* C16: optimize enters a dependent only for a key the target names under it,
\* and leaves alone a branching field the target names nothing of.
C16_MinimalWrites == C16_EnterOnlyTouched /\ C16_UntouchedKept

\* C16 witness: optimize({videoBitrate}) has returned on a store on Simple:
\* outputMode was set to Advanced and back for videoBitrate, which the store has
\* taken; encoder, of which the target names nothing, and the fields under it
\* are as they were.
C16_Witness ==
    /\ Returned("optimize") /\ sent
    /\ DOMAIN values = { "videoBitrate" }
    /\ store0["outputMode"] = "Simple" /\ store["outputMode"] = "Simple"
    /\ store["videoBitrate"] = values["videoBitrate"]
    /\ store0["videoBitrate"] # values["videoBitrate"]
    /\ \A k \in {"encoder"} \cup Subtree("encoder") : store[k] = store0[k]

\* setValue is about to be called for a setting that is found and whose value
\* in the form data equals the value it is given.
SettingEqual ==
    /\ Running("setValue")
    /\ Head(stack).key \in DOMAIN FormDataAtHead
    /\ FormDataAtHead[Head(stack).key] = Head(stack).value

\* C17, the step: a setValue for a found setting with an equal value changes no
\* field of the store or of a cached form data, adds no category to
\* modifiedCategories and takes none out, calls setSettings not, drops no cache
\* entry, and has no further step.
C17_EqualStep ==
    SettingEqual
        => /\ store' = store
           /\ modifiedCategories' = modifiedCategories
           /\ edited' = edited /\ unsent' = unsent
           /\ sent' = sent /\ dirtied' = dirtied
           /\ DOMAIN categoryCache \subseteq DOMAIN categoryCache'
           /\ \A c \in DOMAIN categoryCache : categoryCache'[c] = categoryCache[c]
           /\ stack' = Tail(stack)

\* C17: setValue is a no-op on an equal value, for a branching field as well.
C17_EqualValueNoOp == [][C17_EqualStep]_vars

\* C17 witness: during optimize({videoBitrate}) on a store on Advanced, the
\* setValue of encoder with its own value has left Output modified and unsent,
\* and setValue is about to be called for outputMode with the value it has.
C17_Witness ==
    /\ pc = "optimize" /\ SettingEqual
    /\ Head(stack).key = "outputMode"
    /\ DOMAIN values = { "videoBitrate" }
    /\ modifiedCategories = << "Output" >> /\ edited = { "videoBitrate" }
    /\ ~ sent

\* C19: every category in modifiedCategories has an entry in categoryCache, so
\* updateCategory sends every category that writeBackCategory or
\* writeBackAllCategories takes out of modifiedCategories.
C19_ModifiedAreCached == Range(modifiedCategories) \subseteq DOMAIN categoryCache

\* C19 witness: during optimize two categories are modified, both in the cache,
\* and writeBackAllCategories is the step to come.
C19_Witness ==
    /\ pc = "optimize" /\ Running("writeBackAllCategories")
    /\ Len(modifiedCategories) = 2
    /\ Range(modifiedCategories) \subseteq DOMAIN categoryCache
    /\ \A c \in Range(modifiedCategories) : \E k \in edited : Def(k).category = c

\* C20: getCurrentSettings() has no step writeBackAllCategories, and whenever no
\* public call is running (none was made yet, or the last one has returned)
\* modifiedCategories is empty and no edit made in the cache is still to be sent.
C20_CleanBetweenCalls ==
    /\ pc = "getCurrentSettings"
           => \A i \in DOMAIN stack : stack[i].op # "writeBackAllCategories"
    /\ pc = "idle" => modifiedCategories = << >> /\ edited = {} /\ unsent = {}

\* C20 witness: getCurrentSettings() has returned, as the second call after an
\* optimize; it edited the cache for its pivots and sent them, and nothing is
\* left modified.
C20_Witness ==
    /\ Returned("getCurrentSettings") /\ before = "optimize"
    /\ dirtied /\ sent
    /\ modifiedCategories = << >> /\ edited = {}
    /\ store = store0

====
